---- MODULE Spec2Model ----
(***************************************************************************)
(* Model of the listing curation pipeline of ebay-card-scraper:            *)
(*   - the quality filter of src/filter.py (should_filter_row, the         *)
(*     cascading delete_image_files and the filter_csv batch run);         *)
(*   - the listing_id deduplication of the requests-based scrapers         *)
(*     (src/scraper.py, src/scrapers/*.py) across runs.                    *)
(*                                                                         *)
(* A text cell (title, card_name) is the sequence of its whitespace-       *)
(* separated tokens; a vocabulary token stands for its case-insensitive    *)
(* class.  The images cell is the sequence of the pieces between its       *)
(* commas.  A cell that csv.DictReader fills with None is NoneText /       *)
(* NoneStr.                                                                *)
(***************************************************************************)
EXTENDS Integers, Sequences, FiniteSets, TLC

VARIABLES
    row, res,                       \* should_filter_row applied to one row
    nlp,                            \* TRUE when a spaCy model is loaded
    fieldnames, delete_images,      \* filter_csv: header of the input, flag
    pc, input, rows_kept, rows_filtered, stats,
    files, dirs,                    \* filesystem under downloaded_images
    output, summary, warnings, last,
    marketplace, site, max_results, \* scraper: which one, the pages it is served
    spc, fresh, metadata, metadata_file,
    listings, page, pos, downloaded_count, returned,
    complete, runLog, lastStep,
    op, args, ret                   \* a library function: its name, arguments, result

filterVars == <<fieldnames, delete_images, pc, input, rows_kept, rows_filtered,
                stats, files, dirs, output, summary, warnings, last>>
rowVars == <<row, res>>
scraperVars == <<marketplace, site, max_results, spc, fresh, metadata, metadata_file,
                 listings, page, pos, downloaded_count, returned, complete, runLog,
                 lastStep>>
callVars == <<op, args, ret>>
vars == <<row, res, nlp, fieldnames, delete_images, pc, input, rows_kept,
          rows_filtered, stats, files, dirs, output, summary, warnings, last,
          marketplace, site, max_results, spc, fresh, metadata, metadata_file,
          listings, page, pos, downloaded_count, returned, complete, runLog,
          lastStep, op, args, ret>>

(***************************************************************************)
(* Bounds                                                                  *)
(***************************************************************************)
MaxTextLen == 2
MaxRows == 2
MaxRuns == 2
MaxPages == 2
MaxPageLen == 2
MaxResults == 2

(***************************************************************************)
(* Python values                                                           *)
(***************************************************************************)
NoneText == <<"<None>">>
NoneStr == "<None>"

At(text, i) == IF i \in 1..Len(text) THEN text[i] ELSE ""

FirstIdx(S) == IF S = {} THEN 0 ELSE CHOOSE i \in S : \A j \in S : i <= j

\* str.strip() on the cell strings of the model (a leading blank is the one
\* json_to_csv's ', '.join leaves in front of every piece but the first)
Strip(s) ==
    CASE s = " " -> ""
      [] s = " d1/a" -> "d1/a" [] s = " d1/b" -> "d1/b"
      [] s = " d2/c" -> "d2/c" [] s = " d2/d" -> "d2/d"
      [] s = " 8" -> "8" [] s = " 9" -> "9"
      [] s = " u/c_fit" -> "u/c_fit"
      [] OTHER -> s

(***************************************************************************)
(* Token classes of the regular expressions of filter.py                   *)
(***************************************************************************)
\* tokens that are one number \d+(\.\d+)?
NumTokens == {"3", "5", "5.5", "6", "6.5", "7", "7.5", "8", "8.5", "9", "9.5", "10", "11"}
\* float(token) * 10
GradeX10(t) ==
    CASE t = "3" -> 30 [] t = "5" -> 50 [] t = "5.5" -> 55 [] t = "6" -> 60
      [] t = "6.5" -> 65 [] t = "7" -> 70 [] t = "7.5" -> 75 [] t = "8" -> 80
      [] t = "8.5" -> 85 [] t = "9" -> 90 [] t = "9.5" -> 95 [] t = "10" -> 100
      [] t = "11" -> 110 [] t = "20" -> 200 [] OTHER -> 0 - 1
IsNum(t) == t \in NumTokens
\* digits with a '+' attached ("20+"): \d+ reads the digits, \s*cards does
\* not get past the '+'
NumPlusTokens == {"20+"}
\* the number \d+(\.\d+)? reads at the start of a token, "" when none
LeadNum(t) == IF IsNum(t) THEN t ELSE IF t = "20+" THEN "20" ELSE ""
\* 0 <= float(grade) <= 10
InRange(t) == t # "" /\ 0 <= GradeX10(t) /\ GradeX10(t) <= 100

CompanyTokens == {"CGC", "PSA", "BGS", "SGC"}
CardsTokens == {"card", "cards"}
CollectionWords == {"lot", "collection", "bundle", "bulk", "multiple"}
CollectionPairs == {<<"mystery", "box">>, <<"mystery", "pack">>, <<"mixed", "lot">>,
                    <<"set", "of">>, <<"box", "of">>, <<"pack", "of">>}
ConditionTokens == {"mint", "nm", "gem"}
\* the alternatives of the standalone pattern that are whole tokens
StandaloneTokens == {"10", "9.5", "9", "8.5", "8", "7.5", "7", "6.5", "6", "5.5", "5"}
\* tokens in which one of the NLP context words occurs as a substring
ContextTokens == {"CGC", "PSA", "BGS", "SGC", "grade", "graded", "mint", "gem", "pristine"}

(***************************************************************************)
(* src/filter.py                                                           *)
(***************************************************************************)
\* the pieces that survive "if img.strip()" after the split on ','
ImageList(images_str) ==
    LET kept == SelectSeq(images_str, LAMBDA s : Strip(s) # "")
    IN  [i \in 1..Len(kept) |-> Strip(kept[i])]

count_images(images_str) ==
    IF images_str = NoneText \/ (Len(images_str) = 1 /\ Strip(images_str[1]) = "")
    THEN 0
    ELSE Len(ImageList(images_str))

contains_thicc(text) ==
    IF text = NoneText \/ text = <<>> THEN FALSE
    ELSE \E i \in 1..Len(text) : text[i] = "thicc"

\* re.search(r'\b\d+\b', text_lower)
HasNumber(text) == \E i \in 1..Len(text) : LeadNum(text[i]) # ""

contains_multiple_cards(text) ==
    IF text = NoneText \/ text = <<>> THEN FALSE
    ELSE
      LET lower(t) ==
              CASE t = "Pokemon" -> "pokemon" [] t = "Card" -> "card"
                [] t = "Cards" -> "cards" [] t = "Lot" -> "lot"
                [] t = "Each" -> "each" [] OTHER -> t
          text_lower == [i \in 1..Len(text) |-> lower(text[i])]
          idx == 1..Len(text)
          quantity ==
              \/ \E i \in idx : /\ IsNum(text_lower[i])
                                /\ \/ At(text_lower, i+1) \in CardsTokens
                                   \/ /\ At(text_lower, i+1) = "pokemon"
                                      /\ At(text_lower, i+2) \in CardsTokens
              \/ \E i \in idx : /\ IsNum(text_lower[i])
                                /\ \/ At(text_lower, i+1) \in CardsTokens
                                   \/ /\ At(text_lower, i+1) = "graded"
                                      /\ At(text_lower, i+2) \in CardsTokens
              \/ \E i \in idx : /\ text_lower[i] \in NumPlusTokens
                                /\ At(text_lower, i+1) \in CardsTokens
          collection ==
              /\ \/ \E i \in idx : text_lower[i] \in CollectionWords
                 \/ \E i \in idx : <<text_lower[i], At(text_lower, i+1)>> \in CollectionPairs
              /\ HasNumber(text_lower)
          ranges ==
              \/ \E i \in idx : /\ IsNum(text_lower[i]) /\ At(text_lower, i+1) = "-"
                                /\ LeadNum(At(text_lower, i+2)) # ""
              \/ \E i \in idx : /\ IsNum(text_lower[i]) /\ At(text_lower, i+1) = ","
                                /\ LeadNum(At(text_lower, i+2)) # ""
          each == (\E i \in idx : text_lower[i] = "each") /\ HasNumber(text_lower)
      IN  quantity \/ collection \/ ranges \/ each

\* Position of the token whose number is captured as group(1) when the k-th
\* entry of grade_patterns matches starting at token i, 0 when it does not
\* match there
GradeGroupAt(k, text, i) ==
    LET follows(words) ==
            IF text[i] \in words /\ LeadNum(At(text, i+1)) # "" THEN i + 1 ELSE 0
    IN  CASE k = 1 -> follows(CompanyTokens)
          [] k = 2 -> follows({"grade"})
          [] k = 3 -> follows({"graded"})
          [] k = 4 -> IF IsNum(text[i]) /\ At(text, i+1) \in ConditionTokens \cup {"mint+"}
                      THEN i ELSE 0
          [] k = 5 -> IF text[i] = "gem" /\ At(text, i+1) = "mint"
                         /\ LeadNum(At(text, i+2)) # ""
                      THEN i + 2 ELSE 0
          [] k = 6 -> follows({"pristine"})
          [] k = 7 -> follows({"mint", "mint+"})

\* group(1) of re.search (the leftmost match) for the k-th entry of
\* grade_patterns, "" when the pattern does not match
GradePatternGroup(k, text) ==
    LET m == FirstIdx({i \in 1..Len(text) : GradeGroupAt(k, text, i) # 0})
    IN  IF m = 0 THEN "" ELSE LeadNum(text[GradeGroupAt(k, text, m)])

NumGradePatterns == 7

\* the first pattern, in list order, whose first match is a grade in [0,10]
DirectGrade(text) ==
    LET ok == {k \in 1..NumGradePatterns : InRange(GradePatternGroup(k, text))}
    IN  IF ok = {} THEN "" ELSE GradePatternGroup(FirstIdx(ok), text)

\* re.findall(standalone pattern)[0]
StandaloneGrade(text) ==
    LET m == FirstIdx({i \in 1..Len(text) : text[i] \in StandaloneTokens})
    IN  IF m = 0 THEN "" ELSE text[m]

\* the spaCy pass: the first numeric token in [0,10] with a grading word
\* within two tokens of it
NlpGrade(text) ==
    LET idx == 1..Len(text)
        hit(i) == /\ IsNum(text[i])
                  /\ \E j \in idx : /\ i - 2 <= j /\ j <= i + 2
                                    /\ text[j] \in ContextTokens
                  /\ InRange(text[i])
        m == FirstIdx({i \in idx : hit(i)})
    IN  IF m = 0 THEN "" ELSE text[m]

extract_grade_from_text(text, withNlp) ==
    IF text = NoneText \/ text = <<>> THEN ""
    ELSE IF DirectGrade(text) # "" THEN DirectGrade(text)
    ELSE IF StandaloneGrade(text) # "" THEN StandaloneGrade(text)
    ELSE IF withNlp THEN NlpGrade(text)
    ELSE ""

TooFew(n) == "Too few images (" \o ToString(n) \o ")"

\* "if image_count <= 1" with the threshold off by one
TooFewImagesStrict(image_count) == image_count < 1

TooFewImages(image_count) == image_count <= 1

\* the backfill trying the title before card_name
BackfillGradeTitleFirst(r, withNlp) ==
    LET extracted_grade == extract_grade_from_text(r.title, withNlp)
    IN  IF extracted_grade # "" THEN extracted_grade
        ELSE extract_grade_from_text(r.card_name, withNlp)

\* "Try to extract grade from card_name first, then title"
BackfillGrade(r, withNlp) ==
    LET extracted_grade == extract_grade_from_text(r.card_name, withNlp)
    IN  IF extracted_grade # "" THEN extracted_grade
        ELSE extract_grade_from_text(r.title, withNlp)

\* the multi-card check giving way to a company+grade pattern in the text
MultipleCardsUnlessGraded(r) ==
    /\ contains_multiple_cards(r.title) \/ contains_multiple_cards(r.card_name)
    /\ r.title = NoneText \/ GradePatternGroup(1, r.title) = ""
    /\ r.card_name = NoneText \/ GradePatternGroup(1, r.card_name) = ""

MultipleCards(r) ==
    contains_multiple_cards(r.title) \/ contains_multiple_cards(r.card_name)

\* the extracted grade assigned to a copy, the row left as it was read
SetGradeOnCopy(r, extracted_grade) == r

\* row['grade'] = extracted_grade
SetGrade(r, extracted_grade) == [r EXCEPT !.grade = extracted_grade]

\* Outcome of should_filter_row: kind "reject" / "keep" is the returned
\* boolean, "raise" an exception leaving the function (None has no strip);
\* row is the row dict as the call leaves it.
should_filter_row(r, withNlp) ==
    LET image_count == count_images(r.images)
        extracted_grade == BackfillGrade(r, withNlp)
    IN  IF TooFewImages(image_count)
          THEN [kind |-> "reject", reason |-> TooFew(image_count), row |-> r]
        ELSE IF contains_thicc(r.title)
          THEN [kind |-> "reject", reason |-> "Contains 'thicc' in title", row |-> r]
        ELSE IF contains_thicc(r.card_name)
          THEN [kind |-> "reject", reason |-> "Contains 'thicc' in card_name", row |-> r]
        ELSE IF MultipleCards(r)
          THEN [kind |-> "reject", reason |-> "Multiple cards listing detected", row |-> r]
        ELSE IF r.grade = NoneStr
          THEN [kind |-> "raise", reason |-> "AttributeError", row |-> r]
        ELSE IF Strip(r.grade) = ""
          THEN IF extracted_grade # ""
                 THEN [kind |-> "keep",
                       reason |-> "Grade extracted: " \o extracted_grade,
                       row |-> SetGrade(r, extracted_grade)]
                 ELSE [kind |-> "reject",
                       reason |-> "Missing grade and could not extract", row |-> r]
        ELSE [kind |-> "keep", reason |-> "Passed all filters", row |-> r]

(***************************************************************************)
(* delete_image_files                                                      *)
(***************************************************************************)
\* Path(...).parent of an image path relative to downloaded_images
Dir(path) ==
    CASE path \in {"d1/a", "d1/b"} -> "d1"
      [] path \in {"d2/c", "d2/d", "d2/x"} -> "d2"
      [] OTHER -> "."

\* list(directory.iterdir()) on a leaf listing directory
RemainingFiles(d, fls) == {f \in fls : Dir(f) = d}

\* The first loop (lines 258-277) from the i-th image path on.  acc holds the
\* files on disk, deleted_count, directories_to_delete and the warnings
\* printed; unlink raises for the paths in failF.
RECURSIVE UnlinkLoop(_, _, _, _, _)
UnlinkLoop(images, i, acc, drs, failF) ==
    IF i > Len(images) THEN acc
    ELSE
      LET image_path == images[i]
          parent_dir == Dir(image_path)
          next ==
            IF image_path \in acc.files
            THEN IF image_path \in failF
                 THEN [acc EXCEPT !.touched = @ \cup {parent_dir},
                                  !.warned = @ + 1]
                 ELSE [acc EXCEPT !.touched = @ \cup {parent_dir},
                                  !.files = @ \ {image_path},
                                  !.deleted_count = @ + 1]
            ELSE IF parent_dir \in drs
                 THEN [acc EXCEPT !.touched = @ \cup {parent_dir}]
                 ELSE acc
      IN  UnlinkLoop(images, i + 1, next, drs, failF)

\* the second loop removing every tracked directory together with whatever
\* it still holds (shutil.rmtree in place of the emptiness check and rmdir)
CleanupDirsTree(touched, fls, drs, failD) ==
    LET removed == touched \ failD
    IN  [files |-> {f \in fls : Dir(f) \notin removed},
         dirs |-> drs \ removed,
         warned |-> Cardinality(touched \cap failD)]

\* The second loop (lines 280-293): a tracked directory is removed when its
\* re-listing is empty; iterdir or rmdir raises for the directories in failD.
CleanupDirs(touched, fls, drs, failD) ==
    LET removed == {d \in touched \ failD : RemainingFiles(d, fls) = {}}
    IN  [files |-> fls,
         dirs |-> drs \ removed,
         warned |-> Cardinality(touched \cap failD)]

\* an exception of unlink / rmdir leaving delete_image_files
DeletionErrorPropagates(failF, failD) == failF # {} \/ failD # {}

\* both loops catch Exception and print a warning (lines 271, 292)
DeletionErrorEscapes(failF, failD) == FALSE

delete_image_files(images_str, fls, drs, failF, failD) ==
    LET start == [files |-> fls, deleted_count |-> 0, touched |-> {}, warned |-> 0]
    IN  IF images_str = NoneText \/ (Len(images_str) = 1 /\ Strip(images_str[1]) = "")
        THEN [files |-> fls, dirs |-> drs, deleted_count |-> 0, warned |-> 0,
              touched |-> {}]
        ELSE
          LET unlinked == UnlinkLoop(ImageList(images_str), 1, start, drs, failF)
              cleaned == CleanupDirs(unlinked.touched, unlinked.files, drs, failD)
          IN  [files |-> cleaned.files, dirs |-> cleaned.dirs,
               deleted_count |-> unlinked.deleted_count,
               warned |-> unlinked.warned + cleaned.warned,
               touched |-> unlinked.touched]

(***************************************************************************)
(* SpecRow: should_filter_row applied to one row drawn from bounded sets    *)
(***************************************************************************)
Vocabulary == {"thicc", "lot", "PSA", "9", "3", "11", "pika"}

RECURSIVE TextsOfLen(_)
TextsOfLen(n) ==
    IF n = 0 THEN {<<>>}
    ELSE {Append(t, w) : t \in TextsOfLen(n - 1), w \in Vocabulary}

Texts == UNION {TextsOfLen(n) : n \in 0..MaxTextLen}

GradeCells == {NoneStr, "", " ", "8"}

ImageCells == {NoneText, <<"">>, <<"d1/a">>, <<"d1/a", " d1/b">>, <<"d1/a", " ", " d1/b">>}

NoResult == [kind |-> "none", reason |-> "", row |-> <<>>]

IdleFilter ==
    /\ fieldnames = <<>> /\ delete_images = FALSE /\ pc = "idle"
    /\ input = <<>> /\ rows_kept = <<>> /\ rows_filtered = <<>>
    /\ stats = <<>> /\ files = {} /\ dirs = {}
    /\ output = <<>> /\ summary = <<>> /\ warnings = 0 /\ last = <<>>

IdleCall == op = "none" /\ args = <<>> /\ ret = <<>>

IdleScraper ==
    /\ marketplace = "none" /\ site = <<>> /\ max_results = 0
    /\ spc = "idle" /\ fresh = FALSE /\ metadata = <<>> /\ metadata_file = <<>>
    /\ listings = <<>> /\ page = 0 /\ pos = 0 /\ downloaded_count = 0
    /\ returned = 0 /\ complete = FALSE /\ runLog = <<>> /\ lastStep = <<>>

InitRow ==
    /\ row \in [title : Texts \cup {NoneText}, card_name : Texts \cup {NoneText},
                grade : GradeCells, images : ImageCells, source : {"ebay"},
                extra : {FALSE}]
    /\ res = NoResult
    /\ nlp \in BOOLEAN
    /\ IdleFilter
    /\ IdleScraper
    /\ IdleCall

ApplyFilter ==
    /\ res = NoResult
    /\ res' = should_filter_row(row, nlp)
    /\ UNCHANGED <<row, nlp, filterVars, scraperVars, callVars>>

NextRow == ApplyFilter

SpecRow == InitRow /\ [][NextRow]_vars

(***************************************************************************)
(* Spec: one filter_csv run over an input file and its image directories    *)
(***************************************************************************)
\* Column orders of the input file (the columns the filter reads and one it
\* does not); a short line leaves the trailing columns None.
Headers == {<<"title", "card_name", "grade", "images", "source">>,
            <<"title", "card_name", "images", "source", "grade">>}

\* Lines of the input file, all cells present
FullRows ==
    {[title |-> <<"pika", "PSA", "9">>, card_name |-> <<"pika">>, grade |-> "9",
      images |-> <<"d1/a", " d1/b">>, source |-> "ebay", extra |-> FALSE],
     [title |-> <<"pika", "PSA", "9">>, card_name |-> <<"pika">>, grade |-> "9",
      images |-> <<"d1/a">>, source |-> "ebay", extra |-> FALSE],
     [title |-> <<"thicc", "pika">>, card_name |-> <<"pika">>, grade |-> "9",
      images |-> <<"d2/c", " d2/d">>, source |-> "ebay", extra |-> FALSE],
     [title |-> <<"PSA", "3", "pika">>, card_name |-> <<"pika">>, grade |-> "",
      images |-> <<"d1/a", " d1/b">>, source |-> "ebay", extra |-> FALSE],
     [title |-> <<"pika">>, card_name |-> <<"pika">>, grade |-> " ",
      images |-> <<"d2/c", " d2/d">>, source |-> "ebay", extra |-> FALSE]}

ColIndex(header, field) == CHOOSE i \in 1..Len(header) : header[i] = field

\* csv.DictReader: a line of n cells under the header; missing cells are
\* None (restval), surplus cells are collected under the key None (restkey)
DictRow(header, full, n) ==
    LET cell(field, none) == IF ColIndex(header, field) > n THEN none ELSE full[field]
    IN  [title |-> cell("title", NoneText), card_name |-> cell("card_name", NoneText),
         grade |-> cell("grade", NoneStr), images |-> cell("images", NoneText),
         source |-> cell("source", NoneStr), extra |-> n > Len(header)]

ReaderRows(header) ==
    {DictRow(header, full, n) : full \in FullRows, n \in 1..(Len(header) + 1)}

\* csv.DictWriter: None is written as the empty cell
WrittenRow(r) ==
    [title |-> IF r.title = NoneText THEN <<>> ELSE r.title,
     card_name |-> IF r.card_name = NoneText THEN <<>> ELSE r.card_name,
     grade |-> IF r.grade = NoneStr THEN "" ELSE r.grade,
     images |-> IF r.images = NoneText THEN <<"">> ELSE r.images,
     source |-> IF r.source = NoneStr THEN "" ELSE r.source,
     extra |-> FALSE]

InitFiles == {{"d1/a", "d1/b", "d2/c", "d2/d", "d2/x"},
              {"d1/a", "d1/b", "d2/c", "d2/d"},
              {"d1/b"}}

NoStats == [total |-> 0, kept |-> 0, filtered |-> 0, images_deleted |-> 0,
            grades_extracted |-> 0, reasons |-> <<>>]

NoLast == [kind |-> "none", listed |-> {}, failF |-> {}, failD |-> {}, touched |-> {}]

IdleRow == row = <<>> /\ res = NoResult

Init ==
    /\ IdleRow
    /\ nlp \in BOOLEAN
    /\ fieldnames \in Headers
    /\ delete_images \in BOOLEAN
    /\ pc = "start"
    /\ input = <<>> /\ rows_kept = <<>> /\ rows_filtered = <<>>
    /\ stats = NoStats
    /\ files \in InitFiles
    /\ dirs = {"d1", "d2"}
    /\ output = <<>> /\ summary = <<>> /\ warnings = 0
    /\ last = NoLast
    /\ IdleScraper
    /\ IdleCall

\* "if not input_path.exists(): ... sys.exit(1)"
InputNotFound ==
    /\ pc = "start"
    /\ pc' = "exit1"
    /\ UNCHANGED <<rowVars, nlp, fieldnames, delete_images, input, rows_kept,
                   rows_filtered, stats, files, dirs, output, summary, warnings, last,
                   scraperVars, callVars>>

\* the input exists: the reader is opened and the header read
OpenInput ==
    /\ pc = "start"
    /\ pc' = "rows"
    /\ UNCHANGED <<rowVars, nlp, fieldnames, delete_images, input, rows_kept,
                   rows_filtered, stats, files, dirs, output, summary, warnings, last,
                   scraperVars, callVars>>

\* the reason recorded without counting its earlier occurrences
CountReasonOnce(reasons, reason) ==
    [x \in DOMAIN reasons \cup {reason} |-> IF x = reason THEN 1 ELSE reasons[x]]

\* stats['reasons'][reason] = stats['reasons'].get(reason, 0) + 1
CountReason(reasons, reason) ==
    [x \in DOMAIN reasons \cup {reason} |->
        IF x = reason
        THEN (IF x \in DOMAIN reasons THEN reasons[x] ELSE 0) + 1
        ELSE reasons[x]]

\* rows_kept.append(row)
KeepRow(kept, r) == Append(kept, r)

\* row.get('card_name', 'N/A')[:50] in the progress line: None is not
\* subscriptable
PrintRaises(r) == r.card_name = NoneText

\* "extracted" in reason.lower()
IsExtracted(out) == \E g \in NumTokens : out.reason = "Grade extracted: " \o g

\* One iteration of "for row in reader" (lines 352-374); out is the outcome
\* of should_filter_row(row, nlp), del that of delete_image_files
ProcessRow(r, out, del, failF, failD) ==
    LET counted == [stats EXCEPT !.total = @ + 1]
        listed == IF r.images = NoneText THEN {}
                  ELSE {ImageList(r.images)[i] : i \in 1..Len(ImageList(r.images))}
    IN  /\ input' = Append(input, r)
        /\ CASE out.kind = "raise" ->
                  /\ stats' = counted
                  /\ pc' = "crashed"
                  /\ last' = [NoLast EXCEPT !.kind = "raise"]
                  /\ UNCHANGED <<rows_kept, rows_filtered, files, dirs, warnings>>
             [] out.kind = "reject" ->
                  /\ rows_filtered' = Append(rows_filtered, out.row)
                  /\ UNCHANGED rows_kept
                  /\ IF PrintRaises(out.row)
                     THEN /\ stats' = [counted EXCEPT !.filtered = @ + 1,
                                          !.reasons = CountReason(@, out.reason)]
                          /\ pc' = "crashed"
                          /\ last' = [NoLast EXCEPT !.kind = "raise"]
                          /\ UNCHANGED <<files, dirs, warnings>>
                     ELSE IF delete_images
                     THEN /\ stats' = [counted EXCEPT !.filtered = @ + 1,
                                          !.reasons = CountReason(@, out.reason),
                                          !.images_deleted = @ + del.deleted_count]
                          /\ files' = del.files
                          /\ dirs' = del.dirs
                          /\ warnings' = warnings + del.warned
                          /\ pc' = IF DeletionErrorEscapes(failF, failD)
                                   THEN "crashed" ELSE "rows"
                          /\ last' = [kind |-> "reject", listed |-> listed,
                                      failF |-> failF, failD |-> failD,
                                      touched |-> del.touched]
                     ELSE /\ stats' = [counted EXCEPT !.filtered = @ + 1,
                                          !.reasons = CountReason(@, out.reason)]
                          /\ pc' = "rows"
                          /\ last' = [NoLast EXCEPT !.kind = "reject"]
                          /\ UNCHANGED <<files, dirs, warnings>>
             [] out.kind = "keep" ->
                  /\ rows_kept' = KeepRow(rows_kept, out.row)
                  /\ stats' = [counted EXCEPT !.kept = @ + 1,
                                 !.grades_extracted = IF IsExtracted(out) THEN @ + 1 ELSE @]
                  /\ pc' = IF IsExtracted(out) /\ PrintRaises(out.row)
                           THEN "crashed" ELSE "rows"
                  /\ last' = [NoLast EXCEPT !.kind = "keep"]
                  /\ UNCHANGED <<rows_filtered, files, dirs, warnings>>
        /\ UNCHANGED <<rowVars, nlp, fieldnames, delete_images, output, summary,
                       scraperVars, callVars>>

\* the reader yields the next line; unlink and rmdir fail for some of the
\* paths the row's cleanup touches
ReadRow ==
    /\ pc = "rows"
    /\ Len(input) < MaxRows
    /\ \E r \in ReaderRows(fieldnames) :
         \E failF \in SUBSET (IF delete_images /\ r.images # NoneText
                               THEN {f \in files : \E i \in 1..Len(r.images) :
                                                     Strip(r.images[i]) = f}
                               ELSE {}) :
           \E failD \in SUBSET (IF delete_images /\ r.images # NoneText
                                 THEN {Dir(Strip(r.images[i])) : i \in 1..Len(r.images)}
                                      \cap dirs
                                 ELSE {}) :
             \E out \in {should_filter_row(r, nlp)} :
               \E del \in {delete_image_files(r.images, files, dirs, failF, failD)} :
                 ProcessRow(r, out, del, failF, failD)

\* rows of rows_kept that DictWriter.writerows puts out before it stops: it
\* raises ValueError at the first row that holds the key None
RECURSIVE WritableRows(_)
WritableRows(rows) ==
    IF rows = <<>> \/ Head(rows).extra THEN <<>>
    ELSE <<WrittenRow(Head(rows))>> \o WritableRows(Tail(rows))

\* End of input: the output file and the summary (lines 376-397)
WriteOutput ==
    /\ pc = "rows"
    /\ output' = [header |-> fieldnames, rows |-> WritableRows(rows_kept)]
    /\ IF \E i \in 1..Len(rows_kept) : rows_kept[i].extra
       THEN pc' = "crashed" /\ UNCHANGED summary
       ELSE pc' = "done" /\ summary' = stats
    /\ UNCHANGED <<rowVars, nlp, fieldnames, delete_images, input, rows_kept,
                   rows_filtered, stats, files, dirs, warnings, last, scraperVars, callVars>>

Next == InputNotFound \/ OpenInput \/ ReadRow \/ WriteOutput

Spec == Init /\ [][Next]_vars

Applied == res # NoResult
Banned(r) == contains_thicc(r.title) \/ contains_thicc(r.card_name)
MultiSignal(r) == contains_multiple_cards(r.title) \/ contains_multiple_cards(r.card_name)
MultiReason == "Multiple cards listing detected"
MissingReason == "Missing grade and could not extract"

\* C1: the checks are applied in the order image count (<= 1), banned
\* term, multi-card signal, missing grade, and the reason returned is that
\* of the earliest check that matches; a row with zero or one image is
\* rejected with "Too few images" whatever its other cells are.
C1_FirstMatchingCheck ==
    Applied =>
      LET n == count_images(row.images)
      IN  /\ n <= 1 => res.kind = "reject" /\ res.reason = TooFew(n)
          /\ n > 1 /\ Banned(row) =>
                /\ res.kind = "reject"
                /\ res.reason = IF contains_thicc(row.title)
                                 THEN "Contains 'thicc' in title"
                                 ELSE "Contains 'thicc' in card_name"
          /\ n > 1 /\ ~Banned(row) /\ MultiSignal(row) =>
                res.kind = "reject" /\ res.reason = MultiReason
          /\ n > 1 /\ ~Banned(row) /\ ~MultiSignal(row) /\ res.kind = "reject" =>
                res.reason = MissingReason
          /\ res.kind = "keep" => n > 1 /\ ~Banned(row) /\ ~MultiSignal(row)

\* a one-image row that also matches the banned-term and multi-card checks
C1_Witness ==
    /\ Applied /\ count_images(row.images) = 1
    /\ contains_thicc(row.title) /\ contains_multiple_cards(row.card_name)
    /\ row.grade = "8"
    /\ res.reason = "Too few images (1)"

\* C2: a row with at least two images and no banned term that carries a
\* multi-card signal in title or card_name is rejected with "Multiple cards
\* listing detected", whatever its grade cell and whether or not a
\* company+grade pattern is present, and its cells are left as they were.
C2_MultiBeforeGrade ==
    Applied /\ count_images(row.images) >= 2 /\ ~Banned(row) /\ MultiSignal(row) =>
      /\ res.kind = "reject"
      /\ res.reason = MultiReason
      /\ res.row = row

\* an empty grade cell, a multi-card signal and a "PSA 9" pattern together
C2_Witness ==
    /\ Applied /\ res.reason = MultiReason
    /\ row.grade = ""
    /\ row.title = <<"PSA", "9">>
    /\ contains_multiple_cards(row.card_name)

C5_DeletionFailureTolerated ==
    [][warnings' > warnings =>
         /\ pc' = "rows"
         /\ Len(input') = Len(input) + 1
         /\ \A f \in last'.listed \ last'.failF : f \notin files'
         /\ \A d \in last'.touched \ last'.failD :
               RemainingFiles(d, files') = {} => d \notin dirs']_vars

\* a deletion failed on the first row, the second row was processed and the
\* output and summary were written
C5_Witness ==
    /\ pc = "done" /\ warnings > 0 /\ Len(input) = 2
    /\ last.kind = "reject" /\ last.failF = {} /\ last.failD = {}
    /\ output # <<>> /\ summary.total = 2

\* what the caller of filter_csv sees: it returns None or exits with 1
Outcome ==
    CASE pc = "done" -> "success"
      [] pc = "exit1" -> "InputNotFound"
      [] pc = "crashed" -> "exception"
      [] OTHER -> "running"

\* C6: when a file or directory deletion failed during the run, the summary
\* reports the number of failures or the outcome is PartialFailure.
C6_FailuresReported ==
    pc = "done" /\ warnings > 0 =>
      \/ Outcome = "PartialFailure"
      \/ "deletion_failures" \in DOMAIN summary /\ summary.deletion_failures = warnings

\* C7: a run started on an existing input file never ends without the
\* output file and the summary.
C7_RunEndsWithSummary ==
    pc = "crashed" => output # <<>> /\ summary # <<>>

\* the rows judged keep, in input order, each with its backfilled grade
RECURSIVE KeptOf(_, _)
KeptOf(rows, withNlp) ==
    IF rows = <<>> THEN <<>>
    ELSE LET r == Head(rows)
             kept == should_filter_row(r, withNlp).kind = "keep"
             asKept == IF r.grade \in {"", " "}
                       THEN [r EXCEPT !.grade = BackfillGrade(r, withNlp)]
                       ELSE r
         IN  (IF kept THEN <<asKept>> ELSE <<>>) \o KeptOf(Tail(rows), withNlp)

\* C8: the output is the subsequence of the input rows judged keep, in
\* input order and under the input's header, a kept row differing from its
\* input row at most in the backfilled grade.
C8_OutputIsKeptRows ==
    (pc = "done" \/ (pc = "crashed" /\ output # <<>>)) =>
      /\ output.header = fieldnames
      /\ output.rows = KeptOf(input, nlp)

(***************************************************************************)
(* SpecDedup: the requests-based scrapers over repeated runs                *)
(*   src/scraper.py, src/scrapers/base_scraper.py, ebay_scraper.py,         *)
(*   mercari_scraper.py                                                     *)
(***************************************************************************)
\* Listing elements of a result page: lid is the id _extract_listing_data
\* finds ("" when it finds none), url the listing it shows, ok FALSE when
\* the element has no image and _extract_listing_data returns None.
Listings ==
    {[lid |-> "111", url |-> "u1", ok |-> TRUE],
     [lid |-> "m22", url |-> "u2", ok |-> TRUE],
     [lid |-> "", url |-> "u3", ok |-> TRUE],
     [lid |-> "", url |-> "u4", ok |-> TRUE],
     [lid |-> "555", url |-> "u5", ok |-> FALSE]}

\* ids made of digits only, which pandas.read_csv parses as integers
IsNumericId(v) == v \in {"111", "555"}

RECURSIVE PagesOfLen(_)
PagesOfLen(n) ==
    IF n = 0 THEN {<<>>}
    ELSE {Append(pg, l) : pg \in PagesOfLen(n - 1), l \in Listings}

Pages == {pg \in UNION {PagesOfLen(n) : n \in 1..MaxPageLen} :
            \A i, j \in 1..Len(pg) : i # j => pg[i] # pg[j]}

Sites == UNION {[1..n -> Pages] : n \in 1..MaxPages}

NoFile == [exists |-> FALSE, rows |-> <<>>]

\* listing_id or 'unknown' (scraper.py:151, ebay_scraper.py:111,
\* mercari_scraper.py:125)
ListingIdOf(l) == IF l.lid = "" THEN "unknown" ELSE l.lid

\* pd.read_csv(...).to_dict('records'): a column holding only digit strings
\* comes back as integers, any other column as strings; an empty file
\* raises and leaves the list empty
_load_existing_metadata(file) ==
    IF ~file.exists THEN <<>>
    ELSE LET allNumeric == \A i \in 1..Len(file.rows) : IsNumericId(file.rows[i].listing_id)
         IN  [i \in 1..Len(file.rows) |->
                [listing_id |-> [kind |-> IF allNumeric THEN "int" ELSE "str",
                                 v |-> file.rows[i].listing_id],
                 url |-> file.rows[i].url]]

\* pd.DataFrame(self.metadata).to_csv: every value is written as its text
_save_metadata(records) ==
    [exists |-> TRUE,
     rows |-> [i \in 1..Len(records) |->
                 [listing_id |-> records[i].listing_id.v, url |-> records[i].url]]]

\* any(m.get('listing_id') == listing_data['listing_id'] for m in
\* self.metadata): an int never equals a str
AlreadyDownloaded(records, listing_id) ==
    \E i \in 1..Len(records) :
        records[i].listing_id = [kind |-> "str", v |-> listing_id]

InitDedup ==
    /\ IdleRow /\ nlp = FALSE /\ IdleFilter /\ IdleCall
    /\ marketplace \in {"ebay", "mercari"}
    /\ site \in Sites
    /\ max_results \in 1..MaxResults
    /\ spc = "none" /\ fresh = FALSE
    /\ metadata = <<>> /\ metadata_file = NoFile
    /\ listings = <<>> /\ page = 0 /\ pos = 0 /\ downloaded_count = 0
    /\ returned = 0 /\ complete = FALSE /\ runLog = <<>>
    /\ lastStep = [url |-> "", lid |-> "", decision |-> "none"]

world == <<row, res, nlp, filterVars, callVars, marketplace, site, max_results>>

\* __init__: a scraper object is constructed (at first, or by a later
\* process) and loads the metadata file
Construct ==
    /\ spc \in {"none", "returned"}
    /\ metadata' = _load_existing_metadata(metadata_file)
    /\ spc' = "ready"
    /\ fresh' = TRUE
    /\ UNCHANGED <<world, metadata_file, listings, page, pos, downloaded_count,
                   returned, complete, runLog, lastStep>>

\* search_graded_cards is called, on a new scraper or again on the same one
StartSearch ==
    /\ spc \in {"ready", "returned"}
    /\ Len(runLog) < MaxRuns
    /\ fresh' = (spc = "ready")
    /\ downloaded_count' = 0
    /\ page' = 1
    /\ complete' = TRUE
    /\ spc' = "page"
    /\ UNCHANGED <<world, metadata, metadata_file, listings, pos, returned, runLog,
                   lastStep>>

\* the method returns count; saved tells whether _save_metadata ran first
Return(count, saved, wasComplete) ==
    /\ metadata_file' = IF saved THEN _save_metadata(metadata) ELSE metadata_file
    /\ returned' = count
    /\ runLog' = Append(runLog,
                        [len |-> IF saved THEN Len(metadata) ELSE Len(metadata_file.rows),
                         complete |-> wasComplete, fresh |-> fresh, saved |-> saved])
    /\ spc' = "returned"
    /\ UNCHANGED <<world, fresh, metadata, listings, page, pos, downloaded_count,
                   complete, lastStep>>

Min(a, b) == IF a < b THEN a ELSE b

\* eBay: the head of "while downloaded_count < max_results" and the fetch
\* of one page; no listings ends the loop
FetchPageEbay ==
    /\ spc = "page" /\ marketplace = "ebay"
    /\ IF downloaded_count >= max_results
       THEN Return(downloaded_count, TRUE, FALSE)
       ELSE IF page > Len(site)
       THEN Return(downloaded_count, TRUE, complete)
       ELSE /\ listings' = site[page]
            /\ pos' = 1
            /\ spc' = "listing"
            /\ UNCHANGED <<world, fresh, metadata, metadata_file, page,
                           downloaded_count, returned, complete, runLog, lastStep>>

\* eBay: an exception inside the try of the while body (request failure or
\* anything raised while a listing is handled): logged, break, save
PageErrorEbay ==
    /\ marketplace = "ebay"
    /\ \/ spc = "page" /\ downloaded_count < max_results
       \/ spc = "listing"
    /\ Return(downloaded_count, TRUE, FALSE)

\* Mercari: the single fetch; 403, no listings and an exception all return
\* without saving
FetchPageMercari ==
    /\ spc = "page" /\ marketplace = "mercari"
    /\ \/ Return(0, FALSE, FALSE)
       \/ /\ site[1] # <<>>
          /\ listings' = SubSeq(site[1], 1, Min(max_results, Len(site[1])))
          /\ pos' = 1
          /\ spc' = "listing"
          /\ complete' = (Len(site) = 1 /\ Len(site[1]) <= max_results)
          /\ UNCHANGED <<world, fresh, metadata, metadata_file, page,
                         downloaded_count, returned, runLog, lastStep>>

\* Mercari: an exception while a listing is handled: "return
\* downloaded_count" in the except, _save_metadata is skipped
ListingErrorMercari ==
    /\ spc = "listing" /\ marketplace = "mercari"
    /\ Return(downloaded_count, FALSE, FALSE)

\* One listing of the for loop: extraction, the already-downloaded check,
\* the download and the append
HandleListing(l, downloadOk) ==
    LET listing_id == ListingIdOf(l)
        decided(d) == lastStep' = [url |-> l.url, lid |-> l.lid, decision |-> d]
    IN  /\ pos' = pos + 1
        /\ IF ~l.ok
           THEN decided("nodata") /\ UNCHANGED <<metadata, downloaded_count, complete>>
           ELSE IF AlreadyDownloaded(metadata, listing_id)
           THEN decided("skip") /\ UNCHANGED <<metadata, downloaded_count, complete>>
           ELSE IF downloadOk
           THEN /\ decided("downloaded")
                /\ metadata' = Append(metadata,
                                      [listing_id |-> [kind |-> "str", v |-> listing_id],
                                       url |-> l.url])
                /\ downloaded_count' = downloaded_count + 1
                /\ UNCHANGED complete
           ELSE /\ decided("failed")
                /\ complete' = FALSE
                /\ UNCHANGED <<metadata, downloaded_count>>
        /\ UNCHANGED <<world, spc, fresh, metadata_file, listings, page, returned, runLog>>

\* eBay: one iteration of "for listing in listings", or its end
NextListingEbay ==
    /\ spc = "listing" /\ marketplace = "ebay"
    /\ IF pos > Len(listings) \/ downloaded_count >= max_results
       THEN /\ page' = page + 1
            /\ spc' = "page"
            /\ UNCHANGED <<world, fresh, metadata, metadata_file, listings, pos,
                           downloaded_count, returned, complete, runLog, lastStep>>
       ELSE \E downloadOk \in BOOLEAN : HandleListing(listings[pos], downloadOk)

\* Mercari: one iteration of "for listing in listings[:max_results]", or
\* its end followed by _save_metadata and the return
NextListingMercari ==
    /\ spc = "listing" /\ marketplace = "mercari"
    /\ IF pos > Len(listings) \/ downloaded_count >= max_results
       THEN Return(downloaded_count, TRUE, complete)
       ELSE \E downloadOk \in BOOLEAN : HandleListing(listings[pos], downloadOk)

NextDedup ==
    \/ Construct \/ StartSearch
    \/ FetchPageEbay \/ PageErrorEbay \/ NextListingEbay
    \/ FetchPageMercari \/ ListingErrorMercari \/ NextListingMercari

SpecDedup == InitDedup /\ [][NextDedup]_vars

\* C9: when a first run that handled every listing it was served is
\* followed by a second run over the same listings on a freshly constructed
\* scraper, the persisted metadata holds no two records with the same
\* listing key (the listing_id, or the listing URL when the id is unknown)
\* and as many records as after the first run.
C9_DedupAcrossRuns ==
    LET KeyOf(rec) == IF rec.listing_id = "unknown"
                      THEN <<"url", rec.url>> ELSE <<"id", rec.listing_id>>
        rows == metadata_file.rows
    IN  (/\ spc = "returned" /\ Len(runLog) = 2
         /\ runLog[1].complete /\ runLog[1].saved /\ runLog[2].fresh) =>
          /\ \A i, j \in 1..Len(rows) : i # j => KeyOf(rows[i]) # KeyOf(rows[j])
          /\ runLog[2].len = runLog[1].len

\* C10: a listing that reaches the already-downloaded check is skipped
\* exactly when the metadata holds a record with the same listing_id, or,
\* its id being unknown, the same listing URL; two different listings
\* without an id are both accepted.
C10_DedupIdentity ==
    [][(spc = "listing" /\ pos' = pos + 1 /\ lastStep'.decision # "nodata") =>
         LET l == listings[pos]
             SameListing(rec) ==
                 IF l.lid # "" THEN rec.listing_id.v = l.lid
                 ELSE rec.listing_id.v = "unknown" /\ rec.url = l.url
         IN  (lastStep'.decision = "skip") <=>
                \E i \in 1..Len(metadata) : SameListing(metadata[i])]_vars

(***************************************************************************)
(* SpecMerge: merge_csv_files of src/utils/convert_to_csv.py                *)
(*   A CSV file is its header and its lines of cell texts; a DataFrame is   *)
(*   its columns, the dtype pandas gives each column and its typed cells.   *)
(***************************************************************************)
MaxFiles == 2
MaxFileRows == 2

NaN == [t |-> "nan", v |-> ""]

\* the dtype pd.read_csv infers for a column from its cell texts: an empty
\* cell is NaN, a column of integer texts ("10", "111") is int64, and
\* integers with a NaN among them become float64
InferDtype(texts) ==
    LET present == texts \ {""}
    IN  IF present = {} THEN "float"
        ELSE IF present \subseteq {"10", "111"}
        THEN (IF "" \in texts THEN "float" ELSE "int")
        ELSE "object"

Range(seq) == {seq[i] : i \in 1..Len(seq)}

\* pd.read_csv(csv_file) of a file that parses
read_csv(file) ==
    LET dtypes == [c \in Range(file.columns) |->
                     InferDtype({file.rows[i][c] : i \in 1..Len(file.rows)})]
        ReadCell(dtype, text) ==
            IF text = "" THEN NaN
            ELSE [t |-> IF dtype = "object" THEN "str" ELSE dtype, v |-> text]
    IN  [columns |-> file.columns,
         dtypes |-> dtypes,
         rows |-> [i \in 1..Len(file.rows) |->
                     [c \in Range(file.columns) |-> ReadCell(dtypes[c], file.rows[i][c])]]]

\* the loop of lines 284-289: the frames of the files that could be read,
\* in the order of csv_files; a file that raises is logged and left out
RECURSIVE LoadFrames(_)
LoadFrames(csv_files) ==
    IF csv_files = <<>> THEN <<>>
    ELSE (IF Head(csv_files).parsable THEN <<read_csv(Head(csv_files))>> ELSE <<>>)
         \o LoadFrames(Tail(csv_files))

\* columns of the concatenation: those of the first frame, then the new
\* ones of each later frame, in order of appearance
RECURSIVE UnionColumns(_, _)
UnionColumns(dfs, acc) ==
    IF dfs = <<>> THEN acc
    ELSE UnionColumns(Tail(dfs),
                      acc \o SelectSeq(Head(dfs).columns, LAMBDA c : c \notin Range(acc)))

\* rows of the concatenation: a cell of an int64 column that ends up
\* float64 is upcast, a column a frame lacks is NaN
RECURSIVE ConcatRows(_, _, _)
ConcatRows(dfs, columns, dtypes) ==
    IF dfs = <<>> THEN <<>>
    ELSE LET df == Head(dfs)
             Upcast(dtype, cell) ==
                 IF dtype = "float" /\ cell.t = "int"
                 THEN [cell EXCEPT !.t = "float"] ELSE cell
             widen(r) == [c \in Range(columns) |->
                            IF c \in Range(df.columns) THEN Upcast(dtypes[c], r[c])
                            ELSE NaN]
         IN  [i \in 1..Len(df.rows) |-> widen(df.rows[i])]
             \o ConcatRows(Tail(dfs), columns, dtypes)

\* pd.concat(dfs, ignore_index=True); the dtype of a column is object if
\* any frame holds it as object, int64 only if every frame holds it as
\* int64, else float64
concat(dfs) ==
    LET columns == UnionColumns(dfs, <<>>)
        ConcatDtype(fs, c) ==
            LET having == {i \in 1..Len(fs) : c \in Range(fs[i].columns)}
            IN  IF \E i \in having : fs[i].dtypes[c] = "object" THEN "object"
                ELSE IF having = 1..Len(fs) /\ \A i \in having : fs[i].dtypes[c] = "int"
                THEN "int"
                ELSE "float"
        dtypes == [c \in Range(columns) |-> ConcatDtype(dfs, c)]
    IN  [columns |-> columns, dtypes |-> dtypes,
         rows |-> ConcatRows(dfs, columns, dtypes)]

\* df.drop_duplicates(subset=[c], keep='first'): NaN equals NaN
RECURSIVE KeepFirst(_, _, _)
KeepFirst(rows, c, seen) ==
    IF rows = <<>> THEN <<>>
    ELSE IF Head(rows)[c] \in seen THEN KeepFirst(Tail(rows), c, seen)
    ELSE <<Head(rows)>> \o KeepFirst(Tail(rows), c, seen \cup {Head(rows)[c]})

\* merged_df.drop_duplicates(subset=['listing_url'], keep='first')
drop_duplicates(df, c) == [df EXCEPT !.rows = KeepFirst(df.rows, c, {})]

\* df.to_csv(output_path, index=False): NaN is written empty and a float
\* with its decimal point
to_csv(df) ==
    LET WriteCell(cell) ==
            CASE cell.t = "nan" -> ""
              [] cell.t = "float" -> cell.v \o ".0"
              [] OTHER -> cell.v
    IN  [columns |-> df.columns,
         rows |-> [i \in 1..Len(df.rows) |->
                     [c \in Range(df.columns) |-> WriteCell(df.rows[i][c])]]]

\* merge_csv_files(csv_files, output_path, remove_duplicates)
merge_csv_files(csv_files, remove_duplicates) ==
    LET dfs == LoadFrames(csv_files)
        merged_df == concat(dfs)
        deduped == IF remove_duplicates /\ "listing_url" \in Range(merged_df.columns)
                   THEN drop_duplicates(merged_df, "listing_url")
                   ELSE merged_df
    IN  IF dfs = <<>>
        THEN [raised |-> TRUE, written |-> FALSE, file |-> [columns |-> <<>>, rows |-> <<>>]]
        ELSE [raised |-> FALSE, written |-> TRUE, file |-> to_csv(deduped)]

\* The files handed to the merge: one that cannot be parsed, and files of
\* up to MaxFileRows lines under three column lists: with every identity
\* column, as json_to_csv exports them (no listing_id), and as the scrapers'
\* metadata files have them (no listing_url)
CsvFiles ==
    LET Schemas == {<<"source", "listing_id", "listing_url", "grade">>,
                    <<"source", "listing_url", "grade">>,
                    <<"source", "listing_id", "grade">>}
        MergeRows ==
            {[source |-> "ebay", listing_id |-> "111", listing_url |-> "u1",
              grade |-> "10"],
             [source |-> "ebay", listing_id |-> "111", listing_url |-> "u2",
              grade |-> "10"],
             [source |-> "mercari", listing_id |-> "unknown", listing_url |-> "u3",
              grade |-> ""],
             [source |-> "mercari", listing_id |-> "unknown", listing_url |-> "u3",
              grade |-> "10 Pristine"],
             [source |-> "ebay", listing_id |-> "unknown", listing_url |-> "",
              grade |-> "10"]}
        Project(r, columns) == [c \in Range(columns) |-> r[c]]
    IN  {[parsable |-> FALSE, columns |-> <<>>, rows |-> <<>>]} \cup
        {[parsable |-> TRUE, columns |-> columns,
          rows |-> [i \in 1..Len(rs) |-> Project(rs[i], columns)]] :
            columns \in Schemas,
            rs \in UNION {[1..n -> MergeRows] : n \in 1..MaxFileRows}}

InitMerge ==
    /\ IdleRow /\ nlp = FALSE /\ IdleFilter /\ IdleScraper
    /\ op = "merge_csv_files"
    /\ args \in [csv_files : UNION {[1..n -> CsvFiles] : n \in 1..MaxFiles},
                 remove_duplicates : BOOLEAN]
    /\ ret = <<>>

Merge ==
    /\ op = "merge_csv_files" /\ ret = <<>>
    /\ ret' = merge_csv_files(args.csv_files, args.remove_duplicates)
    /\ UNCHANGED <<rowVars, nlp, filterVars, scraperVars, op, args>>

SpecMerge == InitMerge /\ [][Merge]_vars

\* the lines of the files that could be read, in csv_files order and file
\* order, as the texts the files hold, a column a file lacks left empty
RECURSIVE ConcatLines(_, _)
ConcatLines(csv_files, columns) ==
    IF csv_files = <<>> THEN <<>>
    ELSE LET f == Head(csv_files)
             pad(r) == [c \in Range(columns) |->
                          IF c \in Range(f.columns) THEN r[c] ELSE ""]
         IN  (IF f.parsable THEN [i \in 1..Len(f.rows) |-> pad(f.rows[i])] ELSE <<>>)
             \o ConcatLines(Tail(csv_files), columns)

Merged == op = "merge_csv_files" /\ ret # <<>>

\* C11: with remove_duplicates=True no two rows of the merged output share
\* the identity key ((source, listing_id), or (source, listing_url) when the
\* id is unknown), and the row that survives for a key is the first line
\* with that key in concatenation order (rows with neither an id nor a URL
\* have no key and are left aside; cells are compared as values, 10.0 being
\* 10).
C11_MergeNoDuplicateKeys ==
    (Merged /\ ret.written /\ args.remove_duplicates) =>
      LET Val(t) == CASE t = "10.0" -> "10" [] t = "111.0" -> "111" [] OTHER -> t
          Vals(r) == [c \in DOMAIN r |-> Val(r[c])]
          Key(r) ==
              IF "listing_id" \in DOMAIN r /\ r.listing_id \notin {"", "unknown"}
              THEN <<"id", r.source, Val(r.listing_id)>>
              ELSE <<"url", r.source,
                     IF "listing_url" \in DOMAIN r THEN r.listing_url ELSE "">>
          Keyed(r) == Key(r)[3] # ""
          out == ret.file.rows
          lines == ConcatLines(args.csv_files, ret.file.columns)
          first(k) == lines[FirstIdx({n \in 1..Len(lines) : Key(lines[n]) = k})]
      IN  /\ \A i, j \in 1..Len(out) :
                i # j /\ Keyed(out[i]) => Key(out[i]) # Key(out[j])
          /\ \A n \in 1..Len(lines) :
                Keyed(lines[n]) =>
                  \E i \in 1..Len(out) : Vals(out[i]) = first(Key(lines[n]))

\* C12: with remove_duplicates=True the merged output is the concatenation
\* of the input lines with every line dropped whose listing_url an earlier
\* line has, each survivor equal field for field to that first line and in
\* concatenation order; with remove_duplicates=False it is every input line.
C12_MergeKeepsFirstByUrl ==
    (Merged /\ ret.written) =>
      LET lines == ConcatLines(args.csv_files, ret.file.columns)
      IN  ret.file.rows =
            IF args.remove_duplicates /\ "listing_url" \in Range(ret.file.columns)
            THEN KeepFirst(lines, "listing_url", {})
            ELSE lines

\* C13: when one of the files handed to merge_csv_files cannot be parsed,
\* the merge fails with an error and writes no output file.
C13_UnparsableInputAborts ==
    (Merged /\ \E i \in 1..Len(args.csv_files) : ~args.csv_files[i].parsable) =>
      ret.raised /\ ~ret.written

(***************************************************************************)
(* src/ebay_card_scraper.py: _is_valid_image_url                            *)
(*   A URL string is scheme ":" ["//" netloc] rest; the netloc is its host  *)
(*   labels (joined by dots) and an optional port.                          *)
(***************************************************************************)
NoNetloc == [labels |-> <<>>, port |-> ""]

\* the strings handed to _is_valid_image_url: None, '', '   ', a string
\* urlparse raises on ('http://[bad/x.jpg')
\* (kind "None", "empty", "blank", "malformed") and well-formed ones, made
\* of a scheme, a netloc and what follows the netloc (path and query)
ImageUrls ==
    LET Netlocs ==
            {[labels |-> l, port |-> ""] :
                l \in {<<"ebayimg", "com">>, <<"i", "ebayimg", "com">>,
                       <<"evilebayimg", "com">>, <<"ebayimg", "com", "evil", "com">>,
                       <<"evil", "com">>, <<"I", "EBAYIMG", "COM">>,
                       <<"example", "png">>}}
            \cup {[labels |-> <<"i", "ebayimg", "com">>, port |-> ":443"]}
        Rests == {"", "/image.jpg", "/image.JPEG", "/page", "/ebayimg.com/fake.png",
                  "/i.ebayimg.com/", "/image.gif?x=1"}
    IN  [kind : {"None", "empty", "blank", "malformed"}, scheme : {""},
         netloc : {NoNetloc}, rest : {""}]
        \cup [kind : {"url"}, scheme : {"https", "data", "javascript"},
              netloc : Netlocs \cup {NoNetloc}, rest : Rests]

\* the text compared as it is written
NoLower(t) == t

\* str.lower() on the pieces of the model's URLs
Lower(t) ==
    CASE t = "I" -> "i" [] t = "EBAYIMG" -> "ebayimg" [] t = "COM" -> "com"
      [] t = "/image.JPEG" -> "/image.jpeg"
      [] OTHER -> t

\* urlparse(url): the netloc, or the ValueError it raises
urlparse(url) ==
    IF url.kind = "malformed" THEN [raised |-> TRUE, netloc |-> NoNetloc]
    ELSE IF url.kind = "url" THEN [raised |-> FALSE, netloc |-> url.netloc]
    ELSE [raised |-> FALSE, netloc |-> NoNetloc]

\* url.lower().endswith(('.jpg', '.jpeg', '.png', '.gif')): the extension
\* of the last piece of the URL text that is not empty
EndsWithImageExtension(url) ==
    LET ExtensionOf(t) ==
            CASE t = "/image.jpg" -> ".jpg" [] t = "/image.jpeg" -> ".jpeg"
              [] t = "/image.JPEG" -> ".JPEG" [] t = "/ebayimg.com/fake.png" -> ".png"
              [] t = "png" -> ".png"
              [] OTHER -> ""
        LastPiece ==
            IF url.rest # "" THEN url.rest
            ELSE IF url.netloc.port # "" THEN url.netloc.port
            ELSE url.netloc.labels[Len(url.netloc.labels)]
    IN  ExtensionOf(Lower(LastPiece)) \in {".jpg", ".jpeg", ".png", ".gif"}

\* _is_valid_image_url(url): raised is TRUE when an exception leaves it
_is_valid_image_url(url) ==
    LET \* line 256: not url or url.startswith('data:')
        RejectedAtOnce ==
            \/ url.kind \in {"None", "empty"}
            \/ url.kind = "url" /\ url.scheme = "data"
        \* line 267: parsed.netloc == 'ebayimg.com' or
        \* parsed.netloc.endswith('.ebayimg.com')
        IsCdnNetloc(netloc) ==
            LET n == Len(netloc.labels)
            IN  /\ netloc.port = ""
                /\ n >= 2
                /\ netloc.labels[n - 1] = "ebayimg" /\ netloc.labels[n] = "com"
        parsed == urlparse(url)
    IN  IF RejectedAtOnce THEN [raised |-> FALSE, value |-> FALSE]
        ELSE IF parsed.raised THEN [raised |-> FALSE, value |-> FALSE]
        ELSE IF parsed.netloc = NoNetloc THEN [raised |-> FALSE, value |-> FALSE]
        ELSE IF IsCdnNetloc(parsed.netloc) THEN [raised |-> FALSE, value |-> TRUE]
        ELSE [raised |-> FALSE, value |-> EndsWithImageExtension(url)]

(***************************************************************************)
(* The high-resolution rewrites of image URLs                               *)
(*   src/ebay_card_scraper.py _get_high_res_url, and parse_listing_details  *)
(*   of the eBay and Mercari spiders.  A URL is its host, the segments of   *)
(*   its path (between slashes) and its query parameters; a segment is a    *)
(*   stem, the digits that follow it and what follows the digits.           *)
(***************************************************************************)
MaxSegments == 3

PhotoUrls ==
    LET Segments ==
            {[stem |-> "s-l", num |-> "64", ext |-> ".jpg"],
             [stem |-> "s-l", num |-> "64", ext |-> ""],
             [stem |-> "s-l", num |-> "500", ext |-> ".png"],
             [stem |-> "s-l", num |-> "1600", ext |-> ".jpg"],
             [stem |-> "s-l", num |-> "96", ext |-> ".jpg"],
             [stem |-> "$_", num |-> "12", ext |-> ".JPG"],
             [stem |-> "$_", num |-> "57", ext |-> ".JPG"],
             [stem |-> "q_", num |-> "80", ext |-> ""],
             [stem |-> "c_fill,w_", num |-> "100", ext |-> ""],
             [stem |-> "w_,h_", num |-> "100", ext |-> ""],
             [stem |-> "photo", num |-> "", ext |-> ".jpg"]}
        Queries ==
            {<<>>,
             <<[name |-> "width", num |-> "100"]>>,
             <<[name |-> "quality", num |-> "80"]>>,
             <<[name |-> "quality", num |-> "80"], [name |-> "width", num |-> "100"]>>}
    IN  [host : {"i.ebayimg.com", "static.mercdn.net", "res.cloudinary.com"},
         segs : UNION {[1..n -> Segments] : n \in 1..MaxSegments},
         query : Queries]

\* every size followed by a dot rewritten, known or not
HighResSegmentAnySize(g) ==
    IF g.stem = "s-l" /\ g.num # "" /\ g.ext # ""
    THEN [g EXCEPT !.num = "1600"]
    ELSE g

\* url.replace('s-l64.', 's-l1600.') and the four like it (lines 290-294),
\* on one segment
HighResSegment(g) ==
    IF g.stem = "s-l" /\ g.num \in {"64", "140", "225", "300", "500"} /\ g.ext # ""
    THEN [g EXCEPT !.num = "1600"]
    ELSE g

\* EbayCardScraper._get_high_res_url(url)
_get_high_res_url(url) ==
    [url EXCEPT !.segs = [i \in 1..Len(url.segs) |-> HighResSegment(url.segs[i])]]

\* eBay spider, lines 177-181: re.sub(r's-l\d+', 's-l1600', ...) and the
\* four replace calls of '$_N.JPG', on each segment
ebay_high_res_url(img_url) ==
    LET EbaySpiderSegment(g) ==
            IF g.stem = "s-l" /\ g.num # "" THEN [g EXCEPT !.num = "1600"]
            ELSE IF g.stem = "$_" /\ g.num \in {"1", "12", "14", "35"} /\ g.ext = ".JPG"
            THEN [g EXCEPT !.num = "57"]
            ELSE g
    IN  [img_url EXCEPT
           !.segs = [i \in 1..Len(img_url.segs) |-> EbaySpiderSegment(img_url.segs[i])]]

\* re.sub of one of the Cloudinary patterns '/c_fill,[^/]+/', '/w_\d+,h_\d+/'
\* and '/q_\d+/' from segment i on: a match takes the slash before and the
\* slash after the segment, so the scan resumes after the next segment's
\* leading slash and the last segment never matches
RECURSIVE CloudinarySub(_, _, _)
CloudinarySub(pattern, segs, i) ==
    LET Match(g) ==
            CASE pattern = "c_fill" -> g.stem = "c_fill,w_"
              [] pattern = "w_h" -> g.stem = "w_,h_" /\ g.num # "" /\ g.ext = ""
              [] pattern = "q" -> g.stem = "q_" /\ g.num # "" /\ g.ext = ""
        Replacement(g) ==
            CASE pattern = "c_fill" ->
                      [stem |-> "c_fit,f_auto,fl_progressive:steep,h_1600,q_95,w_",
                       num |-> "1600", ext |-> ""]
              [] pattern = "w_h" -> [g EXCEPT !.num = "1600"]
              [] pattern = "q" -> [g EXCEPT !.num = "95"]
    IN  IF i > Len(segs) THEN segs
        ELSE IF i < Len(segs) /\ Match(segs[i])
        THEN CloudinarySub(pattern, [segs EXCEPT ![i] = Replacement(segs[i])], i + 2)
        ELSE CloudinarySub(pattern, segs, i + 1)

\* Mercari spider, lines 261-273
mercari_high_res_url(img_url) ==
    LET \* 'mercdn.net' in img_url or 'mercari' in img_url
        IsMercariCdn == img_url.host = "static.mercdn.net"
        \* re.sub(r'width=\d+', 'width=2560', ...) then re.sub(r'quality=\d+', ...)
        MercariParam(prm) ==
            CASE prm.name = "width" /\ prm.num # "" -> [prm EXCEPT !.num = "2560"]
              [] prm.name = "quality" /\ prm.num # "" -> [prm EXCEPT !.num = "95"]
              [] OTHER -> prm
        query == [i \in 1..Len(img_url.query) |-> MercariParam(img_url.query[i])]
    IN  IF IsMercariCdn
        THEN IF \E i \in 1..Len(query) : query[i].name = "width"
             THEN [img_url EXCEPT !.query = query]
             ELSE [img_url EXCEPT
                     !.query = query \o <<[name |-> "width", num |-> "2560"],
                                          [name |-> "quality", num |-> "95"]>>]
        ELSE [img_url EXCEPT
                !.segs = CloudinarySub("q",
                           CloudinarySub("w_h",
                             CloudinarySub("c_fill", img_url.segs, 1), 1), 1)]

Rewrites == {"_get_high_res_url", "ebay_high_res_url", "mercari_high_res_url"}

InitUrl ==
    /\ IdleRow /\ nlp = FALSE /\ IdleFilter /\ IdleScraper
    /\ \/ op = "_is_valid_image_url" /\ args \in ImageUrls
       \/ op \in Rewrites /\ args \in PhotoUrls
    /\ ret = <<>>

\* the validation gate is asked about a URL
Validate ==
    /\ op = "_is_valid_image_url" /\ ret = <<>>
    /\ ret' = <<_is_valid_image_url(args)>>
    /\ UNCHANGED <<rowVars, nlp, filterVars, scraperVars, op, args>>

\* a rewrite is applied to the URL, then to its own result
Canonicalize ==
    /\ op \in Rewrites /\ Len(ret) < 2
    /\ LET url == IF ret = <<>> THEN args ELSE ret[1]
       IN  ret' = Append(ret,
                    CASE op = "_get_high_res_url" -> _get_high_res_url(url)
                      [] op = "ebay_high_res_url" -> ebay_high_res_url(url)
                      [] op = "mercari_high_res_url" -> mercari_high_res_url(url))
    /\ UNCHANGED <<rowVars, nlp, filterVars, scraperVars, op, args>>

NextUrl == Validate \/ Canonicalize

SpecUrl == InitUrl /\ [][NextUrl]_vars

Validated == op = "_is_valid_image_url" /\ ret # <<>>

\* C14: a URL whose host is a look-alike of the image CDN (the CDN's name
\* only in the path, or as part of another registered domain) is rejected
\* whatever its path or extension, and an https URL whose host is
\* ebayimg.com or a subdomain of it is accepted.
C14_LookAlikeRejected ==
    (Validated /\ args.kind = "url" /\ args.netloc # NoNetloc) =>
      LET host == [i \in 1..Len(args.netloc.labels) |-> Lower(args.netloc.labels[i])]
          n == Len(host)
          Genuine == n >= 2 /\ host[n - 1] = "ebayimg" /\ host[n] = "com"
          LookAlike == /\ ~Genuine
                       /\ \/ \E i \in 1..n : host[i] \in {"ebayimg", "evilebayimg"}
                          \/ args.rest \in {"/ebayimg.com/fake.png", "/i.ebayimg.com/"}
      IN  /\ LookAlike => ~ret[1].value
          /\ Genuine /\ args.scheme = "https" => ret[1].value

C15_RewriteIdempotent ==
    (op \in Rewrites /\ Len(ret) = 2) => ret[2] = ret[1]

\* C17 as stated: _get_high_res_url turns each size token s-l64, s-l140,
\* s-l225, s-l300, s-l500 of the URL into s-l1600 and changes nothing else.
C17_KnownSizesRewritten ==
    (op = "_get_high_res_url" /\ ret # <<>>) =>
      /\ ret[1].host = args.host /\ ret[1].query = args.query
      /\ Len(ret[1].segs) = Len(args.segs)
      /\ \A i \in 1..Len(args.segs) :
            ret[1].segs[i] =
              IF args.segs[i].stem = "s-l"
                 /\ args.segs[i].num \in {"64", "140", "225", "300", "500"}
              THEN [args.segs[i] EXCEPT !.num = "1600"]
              ELSE args.segs[i]

\* C17 amended: _get_high_res_url turns each size token s-l64, s-l140,
\* s-l225, s-l300, s-l500 that a dot follows into s-l1600 and changes
\* nothing else; a token no dot follows, an unknown size and s-l1600 pass
\* through unchanged.
C17_KnownSizesBeforeDotRewritten ==
    (op = "_get_high_res_url" /\ ret # <<>>) =>
      /\ ret[1].host = args.host /\ ret[1].query = args.query
      /\ Len(ret[1].segs) = Len(args.segs)
      /\ \A i \in 1..Len(args.segs) :
            ret[1].segs[i] =
              IF args.segs[i] \in {[stem |-> "s-l", num |-> "64", ext |-> ".jpg"],
                                   [stem |-> "s-l", num |-> "500", ext |-> ".png"]}
              THEN [args.segs[i] EXCEPT !.num = "1600"]
              ELSE args.segs[i]

\* a thumbnail rewritten next to a segment of unknown size left as it was
C17_Witness ==
    /\ op = "_get_high_res_url" /\ ret # <<>>
    /\ args.segs = <<[stem |-> "s-l", num |-> "96", ext |-> ".jpg"],
                     [stem |-> "s-l", num |-> "64", ext |-> ".jpg"]>>
    /\ ret[1].segs = <<[stem |-> "s-l", num |-> "96", ext |-> ".jpg"],
                       [stem |-> "s-l", num |-> "1600", ext |-> ".jpg"]>>

\* ---------------------------------------------------------------------
\* extract_grading_info of the two spiders.  A title is a sequence of
\* tokens separated by blanks; a token is a word, a number, or a word with
\* a number written against it ('PSA9').

MaxTitleLen == 4

\* the titles handed to extract_grading_info
Titles ==
    LET TitleTokens ==
            {[word |-> "Charizard", num |-> ""],
             [word |-> "PSA", num |-> ""],
             [word |-> "psa", num |-> ""],
             [word |-> "PSA", num |-> "9"],
             [word |-> "BGS", num |-> ""],
             [word |-> "CGC", num |-> ""],
             [word |-> "Beckett", num |-> ""],
             [word |-> "BECKETT", num |-> ""],
             [word |-> "beckett", num |-> ""],
             [word |-> "Pristine", num |-> ""],
             [word |-> "", num |-> "10"],
             [word |-> "", num |-> "9.5"],
             [word |-> "", num |-> "12345678"]}
    IN  UNION {[1..n -> TitleTokens] : n \in 1..MaxTitleLen}

\* companies = ['PSA', 'BGS', 'CGC', 'SGC', 'TAG', 'Beckett']
companies == <<"PSA", "BGS", "CGC", "SGC", "TAG", "Beckett">>

\* str.upper() on the words of the titles and on the company names
Upper(word) ==
    CASE word = "psa" -> "PSA"
      [] word \in {"Beckett", "beckett"} -> "BECKETT"
      [] word = "Pristine" -> "PRISTINE"
      [] word = "Charizard" -> "CHARIZARD"
      [] OTHER -> word

\* company in title.upper(): no word of the titles holds a company name
\* inside a longer word, so the name is found when it is a whole word
CompanyInUpper(company, title) ==
    \E i \in 1..Len(title) : Upper(title[i].word) = company

\* rf'{company}\s*(\d+(?:\.\d+)?)' matched at token i under re.IGNORECASE:
\* the company with a number written against it, or with a number as the
\* next token
GradeMatchAt(company, title, i) ==
    /\ Upper(title[i].word) = Upper(company)
    /\ \/ title[i].num # ""
       \/ i < Len(title) /\ title[i + 1].word = ""

\* the rightmost match taken in place of the leftmost
SearchGradeLast(company, title) ==
    IF \E i \in 1..Len(title) : GradeMatchAt(company, title, i)
    THEN LET m == CHOOSE i \in 1..Len(title) :
                     /\ GradeMatchAt(company, title, i)
                     /\ \A j \in (i + 1)..Len(title) : ~GradeMatchAt(company, title, j)
         IN  IF title[m].num # "" THEN title[m].num ELSE title[m + 1].num
    ELSE NoneStr

\* re.search(pattern, title, re.IGNORECASE) and match.group(1): the
\* leftmost match, the grade staying None without one
SearchGrade(company, title) ==
    IF \E i \in 1..Len(title) : GradeMatchAt(company, title, i)
    THEN LET m == CHOOSE i \in 1..Len(title) :
                     /\ GradeMatchAt(company, title, i)
                     /\ \A j \in 1..(i - 1) : ~GradeMatchAt(company, title, j)
         IN  IF title[m].num # "" THEN title[m].num ELSE title[m + 1].num
    ELSE NoneStr

\* extract_grading_info(title) of the eBay and of the Mercari spider
extract_grading_info(spider, title) ==
    LET \* the first company of the list found in the upper-cased title
        found == {k \in 1..Len(companies) : CompanyInUpper(companies[k], title)}
        company == companies[CHOOSE k \in found : \A j \in found : k <= j]
        \* re.search(rf'{company}\s*10\s*Pristine', title, re.IGNORECASE)
        PristineMatch ==
            \E i \in 1..(Len(title) - 2) :
               /\ Upper(title[i].word) = Upper(company)
               /\ title[i].num = ""
               /\ title[i + 1] = [word |-> "", num |-> "10"]
               /\ Upper(title[i + 2].word) = "PRISTINE"
        \* the '10 Pristine' test is the eBay spider's alone
        grade ==
            IF spider = "ebay" /\ company \in {"TAG", "CGC"} /\ PristineMatch
            THEN "10 Pristine"
            ELSE SearchGrade(company, title)
        \* title.split(company): the tokens before the first occurrence of
        \* the company as the list writes it when there are any, else the
        \* text after the last occurrence; the whole title when the company
        \* is written in another letter case
        at == {i \in 1..Len(title) : title[i].word = company}
        firstAt == CHOOSE i \in at : \A j \in at : i <= j
        lastAt == CHOOSE i \in at : \A j \in at : j <= i
        card_name ==
            IF at = {} THEN title
            ELSE IF firstAt > 1 THEN SubSeq(title, 1, firstAt - 1)
            ELSE (IF title[lastAt].num # ""
                  THEN <<[word |-> "", num |-> title[lastAt].num]>>
                  ELSE <<>>)
                 \o SubSeq(title, lastAt + 1, Len(title))
    IN  IF found = {}
        THEN [card_name |-> [first_half_of |-> title],
              grading_company |-> NoneStr,
              grade |-> NoneStr]
        ELSE [card_name |-> card_name,
              grading_company |-> company,
              grade |-> grade]

InitGrade ==
    /\ IdleRow /\ nlp = FALSE /\ IdleFilter /\ IdleScraper
    /\ op = "extract_grading_info"
    /\ args \in [spider : {"ebay", "mercari"}, title : Titles]
    /\ ret = <<>>

\* a spider extracts the grading information of a listing's title
ExtractGradingInfo ==
    /\ op = "extract_grading_info" /\ ret = <<>>
    /\ ret' = <<extract_grading_info(args.spider, args.title)>>
    /\ UNCHANGED <<rowVars, nlp, filterVars, scraperVars, op, args>>

SpecGrade == InitGrade /\ [][ExtractGradingInfo]_vars

Extracted == op = "extract_grading_info" /\ ret # <<>>

\* C18 as stated: every title that holds 'PSA 10', whatever comes before
\* and after it, yields grading_company 'PSA' and grade '10'.
C18_Psa10Extracted ==
    (Extracted /\ \E i \in 1..(Len(args.title) - 1) :
                     /\ args.title[i] = [word |-> "PSA", num |-> ""]
                     /\ args.title[i + 1] = [word |-> "", num |-> "10"])
       => ret[1].grading_company = "PSA" /\ ret[1].grade = "10"

\* C18 amended: a title that holds 'PSA 10' yields grading_company 'PSA'
\* and grade '10' when no 'PSA' followed by a number, in any letter case,
\* comes before that 'PSA 10'.
C18_FirstPsa10Extracted ==
    (Extracted /\ \E i \in 1..(Len(args.title) - 1) :
                     /\ args.title[i] = [word |-> "PSA", num |-> ""]
                     /\ args.title[i + 1] = [word |-> "", num |-> "10"]
                     /\ \A j \in 1..(i - 1) :
                           args.title[j].word \in {"PSA", "psa"}
                              => /\ args.title[j].num = ""
                                 /\ args.title[j + 1].word # "")
       => ret[1].grading_company = "PSA" /\ ret[1].grade = "10"

\* 'Charizard PSA 10 PSA9': the grade is the one of the first 'PSA' that a
\* number follows
C18_Witness ==
    /\ Extracted
    /\ args.title = <<[word |-> "Charizard", num |-> ""], [word |-> "PSA", num |-> ""],
                      [word |-> "", num |-> "10"], [word |-> "PSA", num |-> "9"]>>
    /\ ret[1].grading_company = "PSA" /\ ret[1].grade = "10"

\* C19: a title that holds 'CGC 10 Pristine' yields the grade '10 Pristine',
\* from the eBay spider and from the Mercari spider alike.
C19_PristineGrade ==
    (Extracted /\ \E i \in 1..(Len(args.title) - 2) :
                     /\ args.title[i] = [word |-> "CGC", num |-> ""]
                     /\ args.title[i + 1] = [word |-> "", num |-> "10"]
                     /\ args.title[i + 2] = [word |-> "Pristine", num |-> ""])
       => ret[1].grade = "10 Pristine"

\* C20: a title whose only company token is 'Beckett', in any letter case,
\* with a grade after it, yields grading_company 'BGS' and that grade.
C20_BeckettIsBgs ==
    Extracted =>
      \A i \in 1..(Len(args.title) - 1) :
         (/\ args.title[i].word \in {"Beckett", "BECKETT", "beckett"}
          /\ args.title[i + 1].word = ""
          /\ \A j \in 1..Len(args.title) :
                /\ args.title[j].word \notin {"PSA", "psa", "BGS", "CGC"}
                /\ j # i => args.title[j].word \notin {"Beckett", "BECKETT", "beckett"})
            => /\ ret[1].grading_company = "BGS"
               /\ ret[1].grade = args.title[i + 1].num

\* C21: the grade extract_grading_info stores is absent, a number of
\* [0,10] or '10 Pristine'; the number outside the range that follows a
\* company (a certification number) is discarded and the grade stays None.
C21_GradeInRange ==
    Extracted => ret[1].grade \in {NoneStr, "9", "9.5", "10", "10 Pristine"}

(***************************************************************************)
(* GradedCardsScraperPipeline.process_item                                 *)
(*   src/graded_cards_scraper/pipelines.py.  A field of the item is absent *)
(*   ("<missing>"), None or a text; the price is written with its type t   *)
(*   ("missing", "None", "str", "float"); the spiders set it to None or to *)
(*   a text, never to a number.                                            *)
(***************************************************************************)
Missing == "<missing>"

\* the items the spiders hand to the pipeline
Items ==
    [title : {Missing, NoneStr, "", "Charizard PSA 10"},
     listing_url : {Missing, NoneStr, "", "u1"},
     source : {Missing, NoneStr, "", "ebay"},
     scraped_date : {"t0"},
     price : {[t |-> "missing", v |-> ""], [t |-> "None", v |-> ""]}
             \cup [t : {"str"},
                   v : {"", " ", "Free", "$5", "$1,234.56", "$12.50 - $15.00"}]]

\* process_item(item, spider): raised is "DropItem", another exception's
\* name, or "" when the item is returned
process_item(item) ==
    LET \* not adapter.get(field)
        Falsy(v) == v \in {Missing, NoneStr, ""}
        \* ''.join(c for c in price_str if c.isdigit() or c == '.')
        cleaned_price ==
            CASE item.price.v = "$5" -> "5"
              [] item.price.v = "$1,234.56" -> "1234.56"
              [] item.price.v = "$12.50 - $15.00" -> "12.5015.00"
              [] OTHER -> ""
        \* float(cleaned_price) if cleaned_price else None, None on ValueError
        price ==
            IF cleaned_price = "" THEN [t |-> "None", v |-> ""]
            ELSE IF cleaned_price = "12.5015.00" THEN [t |-> "None", v |-> ""]
            ELSE [t |-> "float", v |-> cleaned_price]
        \* adapter['scraped_date'] = datetime.now().isoformat()
        dated == [item EXCEPT !.scraped_date = "now"]
    IN  IF Falsy(item.title) \/ Falsy(item.listing_url) \/ Falsy(item.source)
        THEN [raised |-> "DropItem", item |-> dated]
        ELSE IF item.price.v = "" THEN [raised |-> "", item |-> dated]
        ELSE [raised |-> "", item |-> [dated EXCEPT !.price = price]]

InitItem ==
    /\ IdleRow /\ nlp = FALSE /\ IdleFilter /\ IdleScraper
    /\ op = "process_item" /\ args \in Items /\ ret = <<>>

\* the pipeline processes one item
ProcessItem ==
    /\ op = "process_item" /\ ret = <<>>
    /\ ret' = <<process_item(args)>>
    /\ UNCHANGED <<rowVars, nlp, filterVars, scraperVars, op, args>>

SpecItem == InitItem /\ [][ProcessItem]_vars

\* C22: an item whose title, listing_url or source is missing or empty is
\* dropped; an item with all three present is returned, no exception
\* leaves process_item, and its price is then a float or None.
C22_DropOrCleanPrice ==
    (op = "process_item" /\ ret # <<>>) =>
      LET absent == \E f \in {"title", "listing_url", "source"} :
                       args[f] \in {"<missing>", "<None>", ""}
      IN  /\ absent => ret[1].raised = "DropItem"
          /\ ~absent =>
               /\ ret[1].raised = ""
               /\ ret[1].item.price.t \in {"missing", "None", "float"}

(***************************************************************************)
(* json_to_csv_with_stats: the statistics of a scraped dataset             *)
(*   src/utils/convert_to_csv.py.  An item of the JSON file holds its      *)
(*   grading_company and grade (a text or None) and its price: null or a   *)
(*   number, written in cents.  Amounts are whole dollars, so that every   *)
(*   mean of up to MaxItems of them has one '.2f' rendering.               *)
(***************************************************************************)
MaxItems == 3

NoPrice == [null |-> TRUE, cents |-> 0]

Datasets ==
    LET StatItems ==
            [grading_company : {NoneStr, "PSA", "CGC"},
             grade : {NoneStr, "10"},
             price : {NoPrice} \cup [null : {FALSE}, cents : {1000, 2000, 2500}]]
    IN  UNION {[1..n -> StatItems] : n \in 0..MaxItems}

\* a null price counted as a price of nothing
dropnaAsZero(rows) ==
    [i \in 1..Len(rows) |-> IF rows[i].price.null THEN 0 ELSE rows[i].price.cents]

\* df['price'].dropna(): the prices that are not null, in row order
dropna(rows) ==
    LET kept == SelectSeq(rows, LAMBDA r : ~r.price.null)
    IN  [i \in 1..Len(kept) |-> kept[i].price.cents]

\* prices.sum()
RECURSIVE SumCents(_)
SumCents(prices) ==
    IF prices = <<>> THEN 0 ELSE Head(prices) + SumCents(Tail(prices))

\* prices in descending order, equal prices in row order (nlargest; the
\* order statistics of median, min and max)
RECURSIVE Descending(_)
Descending(prices) ==
    IF prices = <<>> THEN <<>>
    ELSE LET m == CHOOSE i \in 1..Len(prices) :
                     /\ \A j \in 1..Len(prices) : prices[j] <= prices[i]
                     /\ \A j \in 1..(i - 1) : prices[j] < prices[i]
         IN  <<prices[m]>>
             \o Descending(SubSeq(prices, 1, m - 1) \o SubSeq(prices, m + 1, Len(prices)))

\* f"{prices.mean():.2f}" of a sum over n prices, in cents
Mean2f(sum, n) == (2 * sum + n) \div (2 * n)

\* the lines of the report, lines 133-208, for a price column of numbers
StatsReport(data) ==
    LET prices == dropna(data)
        n == Len(prices)
        sorted == Descending(prices)
        \* groupby(key)['price'].mean(): a row whose key is None is in no
        \* group, a null price is skipped, a group without prices is NaN
        \* and gets no line
        keys(f) == {data[i][f] : i \in 1..Len(data)} \ {NoneStr}
        group(f, k) == dropna(SelectSeq(data, LAMBDA r : r[f] = k))
        means(f) == [k \in {x \in keys(f) : group(f, x) # <<>>} |->
                       Mean2f(SumCents(group(f, k)), Len(group(f, k)))]
        \* value_counts() leaves None out
        counts(f) == [k \in keys(f) |->
                        Cardinality({i \in 1..Len(data) : data[i][f] = k})]
    IN  [total |-> Len(data),
         company_counts |-> counts("grading_company"),
         grade_counts |-> counts("grade"),
         price_stats |->
            IF n = 0 THEN <<>>
            ELSE <<[with_prices |-> n,
                    of |-> Len(data),
                    mean |-> Mean2f(SumCents(prices), n),
                    median |-> IF n % 2 = 1 THEN sorted[(n + 1) \div 2]
                               ELSE Mean2f(sorted[n \div 2] + sorted[n \div 2 + 1], 2),
                    min |-> sorted[n],
                    max |-> sorted[1],
                    sum |-> SumCents(prices)]>>,
         avg_by_company |-> means("grading_company"),
         avg_by_grade |-> means("grade"),
         top_cards |-> sorted]

InitStats ==
    /\ IdleRow /\ nlp = FALSE /\ IdleFilter /\ IdleScraper
    /\ op = "json_to_csv_with_stats" /\ args \in Datasets /\ ret = <<>>

\* json_to_csv_with_stats(json_path): the CSV is written first (line 116);
\* an empty file gives a frame without columns and a report of the total
\* alone; a price column of nulls alone is a column of objects, on which
\* the group means and nlargest either raise or find nothing, as the
\* installed pandas has it
Summarize ==
    /\ op = "json_to_csv_with_stats" /\ ret = <<>>
    /\ LET report == StatsReport(args)
           bare == [total |-> Len(args), company_counts |-> <<>>,
                    grade_counts |-> <<>>, price_stats |-> <<>>,
                    avg_by_company |-> <<>>, avg_by_grade |-> <<>>,
                    top_cards |-> <<>>]
       IN  \/ /\ args = <<>>
              /\ ret' = <<[raised |-> FALSE, csv |-> TRUE, stats |-> bare]>>
           \/ /\ args # <<>>
              /\ \E i \in 1..Len(args) : ~args[i].price.null
              /\ ret' = <<[raised |-> FALSE, csv |-> TRUE, stats |-> report]>>
           \/ /\ args # <<>>
              /\ \A i \in 1..Len(args) : args[i].price.null
              /\ \/ ret' = <<[raised |-> FALSE, csv |-> TRUE, stats |-> report]>>
                 \/ ret' = <<[raised |-> TRUE, csv |-> TRUE, stats |-> bare]>>
    /\ UNCHANGED <<rowVars, nlp, filterVars, scraperVars, op, args>>

SpecStats == InitStats /\ [][Summarize]_vars

\* C23: in the report the total counts every item, and every price
\* aggregate (items with prices, mean, median, min, max, sum, the means per
\* grading company and per grade) is taken over the items whose price is
\* not null; prices 10.00, 20.00, null give mean 15.00, 2 items with prices
\* and a total of 3.
C23_NullPricesExcluded ==
    (op = "json_to_csv_with_stats" /\ ret # <<>> /\ ~ret[1].raised) =>
      LET st == ret[1].stats
          priced == {i \in 1..Len(args) : ~args[i].price.null}
          cents(i) == args[i].price.cents
          RECURSIVE Sum(_)
          Sum(S) == IF S = {} THEN 0
                    ELSE LET i == CHOOSE j \in S : TRUE IN cents(i) + Sum(S \ {i})
          \* m is the mean of the prices of S rounded to the cent
          IsMean(m, S) == /\ 2 * Cardinality(S) * m - Cardinality(S) <= 2 * Sum(S)
                          /\ 2 * Sum(S) <= 2 * Cardinality(S) * m + Cardinality(S)
          GroupMeans(f, avg) ==
              /\ \A i \in priced : args[i][f] # NoneStr => args[i][f] \in DOMAIN avg
              /\ \A k \in DOMAIN avg :
                    LET g == {i \in priced : args[i][f] = k}
                    IN  g # {} /\ IsMean(avg[k], g)
      IN  /\ st.total = Len(args)
          /\ priced = {} => st.price_stats = <<>>
          /\ priced # {} =>
               /\ Len(st.price_stats) = 1
               /\ LET p == st.price_stats[1]
                  IN  /\ p.with_prices = Cardinality(priced) /\ p.of = Len(args)
                      /\ p.sum = Sum(priced)
                      /\ IsMean(p.mean, priced)
                      /\ \E i \in priced : p.min = cents(i)
                      /\ \E i \in priced : p.max = cents(i)
                      /\ \A i \in priced : p.min <= cents(i) /\ cents(i) <= p.max
                      /\ 2 * Cardinality({i \in priced : cents(i) < p.median})
                            <= Cardinality(priced)
                      /\ 2 * Cardinality({i \in priced : cents(i) > p.median})
                            <= Cardinality(priced)
               /\ GroupMeans("grading_company", st.avg_by_company)
               /\ GroupMeans("grade", st.avg_by_grade)
          /\ [i \in 1..Len(args) |-> args[i].price]
                = <<[null |-> FALSE, cents |-> 1000], [null |-> FALSE, cents |-> 2000],
                    [null |-> TRUE, cents |-> 0]>>
               => /\ st.price_stats[1].mean = 1500
                  /\ st.price_stats[1].with_prices = 2
                  /\ st.total = 3

\* the report of the prices 10.00, 20.00, null
C23_Witness ==
    /\ op = "json_to_csv_with_stats" /\ ret # <<>> /\ ~ret[1].raised
    /\ [i \in 1..Len(args) |-> args[i].price]
          = <<[null |-> FALSE, cents |-> 1000], [null |-> FALSE, cents |-> 2000],
              [null |-> TRUE, cents |-> 0]>>
    /\ ret[1].stats.price_stats[1].mean = 1500
    /\ ret[1].stats.price_stats[1].with_prices = 2
    /\ ret[1].stats.total = 3

(***************************************************************************)
(* The list columns written by json_to_csv and read back by the filter     *)
(*   src/utils/convert_to_csv.py lines 66-76, src/filter.py count_images   *)
(*   and delete_image_files.  A path or URL is the sequence of its pieces  *)
(*   between commas: <<"d1/a">> has no comma, <<"u/c_fit", "w_1600/p.jpg">>*)
(*   is the Cloudinary URL 'u/c_fit,w_1600/p.jpg' of the Mercari spider.   *)
(***************************************************************************)
MaxImages == 3

ImageLists ==
    UNION {[1..n -> {<<"d1/a">>, <<"d1/b">>, <<"d2/c">>, <<"u/c_fit", "w_1600/p.jpg">>}] :
              n \in 0..MaxImages}

\* ', '.join(x), as the pieces between the commas of the joined string
RECURSIVE JoinImages(_)
JoinImages(x) ==
    IF x = <<>> THEN <<"">>
    ELSE IF Len(x) = 1 THEN x[1]
    ELSE LET rest == JoinImages(Tail(x))
         IN  x[1] \o <<" " \o Head(rest)>> \o Tail(rest)

InitFlatten ==
    /\ IdleRow /\ nlp = FALSE /\ IdleFilter /\ IdleScraper
    /\ op = "flatten_split" /\ args \in ImageLists /\ ret = <<>>

\* json_to_csv flattens the list into the cell; the filter counts the
\* images of the cell and splits it for deletion
FlattenAndSplit ==
    /\ op = "flatten_split" /\ ret = <<>>
    /\ LET images_str == JoinImages(args)
       IN  ret' = <<[images_str |-> images_str,
                     count |-> count_images(images_str),
                     images |-> ImageList(images_str)]>>
    /\ UNCHANGED <<rowVars, nlp, filterVars, scraperVars, op, args>>

SpecFlatten == InitFlatten /\ [][FlattenAndSplit]_vars

\* C24: the list split from the flattened cell is the list that was
\* flattened, in its order, and count_images of the cell is its length.
C24_FlattenSplitRoundTrip ==
    (op = "flatten_split" /\ ret # <<>>) =>
      /\ ret[1].count = Len(args)
      /\ Len(ret[1].images) = Len(args)
      /\ \A i \in 1..Len(args) : args[i] = <<ret[1].images[i]>>

(***************************************************************************)
(* contains_multiple_cards on listing titles (src/filter.py)               *)
(***************************************************************************)
MaxCardTextLen == 5

CardTitles ==
    UNION {[1..n -> {"pika", "PSA", "10", "Pokemon", "Card", "cards", "lot",
                     "each", "20+", "-"}] : n \in 0..MaxCardTextLen}

InitCards ==
    /\ IdleRow /\ nlp = FALSE /\ IdleFilter /\ IdleScraper
    /\ op = "contains_multiple_cards" /\ args \in CardTitles /\ ret = <<>>

CheckTitle ==
    /\ op = "contains_multiple_cards" /\ ret = <<>>
    /\ ret' = <<contains_multiple_cards(args)>>
    /\ UNCHANGED <<rowVars, nlp, filterVars, scraperVars, op, args>>

SpecCards == InitCards /\ [][CheckTitle]_vars

\* C25: a title is flagged exactly when it carries a multi-card signal (a
\* number followed by the plural "cards", with "pokemon" between or a '+'
\* attached; a collection keyword together with a number; a numeric range;
\* "each" with a number), and the single-card title "<name> PSA 10 Pokemon
\* Card" is not flagged.
C25_FlaggedIffMultiCardSignal ==
    (op = "contains_multiple_cards" /\ ret # <<>>) =>
      LET idx == 1..Len(args)
          number(t) == t \in {"10", "20+"}
          hasNumber == \E i \in idx : number(args[i])
          plural ==
              \E i \in idx :
                  /\ number(args[i])
                  /\ \/ At(args, i+1) = "cards"
                     \/ args[i] = "10" /\ At(args, i+1) = "Pokemon"
                                       /\ At(args, i+2) = "cards"
          keyword == (\E i \in idx : args[i] = "lot") /\ hasNumber
          range ==
              \E i \in idx : /\ args[i] = "10" /\ At(args, i+1) = "-"
                              /\ number(At(args, i+2))
          each == (\E i \in idx : args[i] = "each") /\ hasNumber
      IN  /\ ret[1] <=> (plural \/ keyword \/ range \/ each)
          /\ args = <<"pika", "PSA", "10", "Pokemon", "Card">> => ~ret[1]

(***************************************************************************)
(* filter_csv: what a run leaves on disk                                   *)
(***************************************************************************)
\* C26: a run that terminates abnormally before the output is written has
\* deleted no image file and no directory.
C26_NoDeletionBeforeOutput ==
    (pc = "crashed" /\ output = <<>>) =>
      /\ stats.images_deleted = 0
      /\ files \in InitFiles
      /\ dirs = {"d1", "d2"}

\* C27: after a run with delete_images set, every file a kept row lists
\* that existed before the run still exists and every file that is gone is
\* listed by a rejected row; after a run without it no file and no
\* directory is gone.
C27_KeptRowsKeepTheirFiles ==
    pc \in {"done", "crashed"} =>
      LET before == CHOOSE S \in InitFiles :
                        /\ files \subseteq S
                        /\ Cardinality(S) - Cardinality(files) = stats.images_deleted
          listedBy(rows) ==
              UNION {IF rows[k].images = NoneText THEN {}
                     ELSE {ImageList(rows[k].images)[i] :
                              i \in 1..Len(ImageList(rows[k].images))} :
                     k \in 1..Len(rows)}
      IN  /\ (listedBy(rows_kept) \cap before) \subseteq files
          /\ (before \ files) \subseteq listedBy(rows_filtered)
          /\ ~delete_images => files = before /\ dirs = {"d1", "d2"}

(***************************************************************************)
(* SpecRerun: filter_csv run again on the output of a filter_csv run       *)
(***************************************************************************)
\* a second filter_csv call whose input_file is the file the first call
\* wrote; args keeps that file and the disk as the first call left them
RerunOnOutput ==
    /\ op = "none" /\ pc \in {"done", "crashed"} /\ output # <<>>
    /\ op' = "rerun" /\ args' = <<output, files, dirs>> /\ ret' = <<>>
    /\ nlp' \in BOOLEAN /\ delete_images' \in BOOLEAN
    /\ fieldnames' = output.header
    /\ pc' = "rows"
    /\ input' = <<>> /\ rows_kept' = <<>> /\ rows_filtered' = <<>>
    /\ stats' = NoStats
    /\ output' = <<>> /\ summary' = <<>> /\ warnings' = 0 /\ last' = NoLast
    /\ UNCHANGED <<rowVars, files, dirs, scraperVars>>

\* the reader yields the next line of the file the first call wrote: every
\* line has a cell for each column
ReadOutputRow ==
    /\ op = "rerun" /\ pc = "rows"
    /\ Len(input) < Len(args[1].rows)
    /\ LET r == args[1].rows[Len(input) + 1]
       IN  \E failF \in SUBSET (IF delete_images
                                 THEN {f \in files : \E i \in 1..Len(r.images) :
                                                       Strip(r.images[i]) = f}
                                 ELSE {}) :
             \E failD \in SUBSET (IF delete_images
                                   THEN {Dir(Strip(r.images[i])) : i \in 1..Len(r.images)}
                                        \cap dirs
                                   ELSE {}) :
               \E out \in {should_filter_row(r, nlp)} :
                 \E del \in {delete_image_files(r.images, files, dirs, failF, failD)} :
                   ProcessRow(r, out, del, failF, failD)

\* end of the file the first call wrote
WriteOutputAgain ==
    /\ op = "rerun" /\ Len(input) = Len(args[1].rows)
    /\ WriteOutput

NextRerun ==
    \/ op = "none" /\ InputNotFound
    \/ op = "none" /\ OpenInput
    \/ op = "none" /\ ReadRow
    \/ op = "none" /\ WriteOutput
    \/ RerunOnOutput
    \/ ReadOutputRow
    \/ WriteOutputAgain

SpecRerun == Init /\ [][NextRerun]_vars

\* C28: a run on the output of a previous run keeps every row, changes no
\* field, extracts no grade and deletes no file.
C28_RerunKeepsEverything ==
    op = "rerun" =>
      /\ pc # "crashed"
      /\ rows_filtered = <<>> /\ stats.filtered = 0
      /\ rows_kept = SubSeq(args[1].rows, 1, Len(input))
      /\ stats.grades_extracted = 0
      /\ stats.images_deleted = 0 /\ files = args[2] /\ dirs = args[3]
      /\ pc = "done" => output = args[1]

\* the second run has ended with deletion requested, on a file of two rows
\* of which one carries a grade the first run extracted
C28_Witness ==
    /\ op = "rerun" /\ pc = "done" /\ delete_images
    /\ Len(rows_kept) = 2
    /\ \E k \in 1..2 : rows_kept[k].grade = "3"

\* C29: after each row processed total = kept + filtered, the per-reason
\* counts sum to filtered, grades_extracted <= kept, and rows_kept and
\* rows_filtered hold kept and filtered rows.
C29_CountersConsistent ==
    pc \in {"rows", "done"} =>
      LET RECURSIVE SumReasons(_)
          SumReasons(S) ==
              IF S = {} THEN 0
              ELSE LET x == CHOOSE y \in S : TRUE
                   IN  stats.reasons[x] + SumReasons(S \ {x})
      IN  /\ stats.total = stats.kept + stats.filtered
          /\ stats.total = Len(input)
          /\ SumReasons(DOMAIN stats.reasons) = stats.filtered
          /\ stats.grades_extracted <= stats.kept
          /\ Len(rows_kept) = stats.kept
          /\ Len(rows_filtered) = stats.filtered

\* two rows rejected for the same reason
C29_Witness ==
    /\ pc = "rows" /\ stats.total = 2 /\ stats.filtered = 2
    /\ \E x \in DOMAIN stats.reasons : stats.reasons[x] = 2

(***************************************************************************)
(* search_graded_cards: what has reached the metadata file on return       *)
(***************************************************************************)
\* C30: when search_graded_cards has returned, every record it appended to
\* the metadata during the call is in the metadata file, and the count it
\* returned is the number of records appended and at most max_results.
C30_AppendedRecordsSaved ==
    spc = "returned" =>
      /\ \A i \in (Len(metadata) - downloaded_count + 1)..Len(metadata) :
            /\ metadata_file.exists
            /\ i <= Len(metadata_file.rows)
            /\ metadata_file.rows[i] = _save_metadata(metadata).rows[i]
      /\ returned = downloaded_count
      /\ returned <= max_results

====
